---------------------------- MODULE Spec2Model ----------------------------
(***************************************************************************)
(* A model of src/utils.py, the regression-test helpers of the            *)
(* openeo-benchmarks repository: extract_test_geometries,                  *)
(* extract_reference_band_statistics, assert_band_statistics,              *)
(* calculate_band_statistics and execute_and_assert.                       *)
(*                                                                         *)
(* Numbers.  A float is written <<n, d>> with d > 0 and stands for the     *)
(* double nearest to n / d (that value itself when d is a power of two);  *)
(* <<n, d, k>> is that double times 2^-k, for values too close to zero    *)
(* for a 32-bit denominator.  NaN is <<0, 0>>, the infinities are         *)
(* <<1, 0>> and <<-1, 0>>.  Python dicts keep insertion order, so a dict  *)
(* that the code iterates is a sequence of <<key, value>> items with      *)
(* distinct keys; a dict that is only looked up is a function.            *)
(***************************************************************************)
EXTENDS Integers, Sequences, FiniteSets, TLC

VARIABLES
    fn,                     \* the public function the test called
    pc,                     \* position of the call in progress
    world,                  \* the files and the remote back end the call meets
    args,                   \* scenario_name, filename, hypercube of the call
    output_band_stats,      \* parameter of assert_band_statistics / local of execute_and_assert
    groundtruth_band_dict,  \* parameter of assert_band_statistics / groundtruth_band_stats
    tolerance,              \* the relative tolerance <<num, den>>
    bi,                     \* position of the outer loop (line 74), 1-based
    si,                     \* position of the inner loop (line 81), 1-based
    log,                    \* records emitted through _log, oldest first
    handles,                \* file handles currently open
    opened,                 \* every handle the call has opened so far
    started,                \* calls made by execute_and_assert, in order
    exc,                    \* exception in flight inside execute_and_assert
    result                  \* how the call ended

vars == <<fn, pc, world, args, output_band_stats, groundtruth_band_dict,
          tolerance, bi, si, log, handles, opened, started, exc, result>>

-----------------------------------------------------------------------------
(* Bounds of the model. *)

MaxVal == 10        \* statistic values of the tolerance study lie in -MaxVal..MaxVal
TolDen == 8         \* tolerances of the tolerance study are k/TolDen, k in 0..TolDen
MaxBands == 2       \* most bands in a computed output
MaxStats == 2       \* most statistics in a reference band
MaxRecords == 2     \* most records in the reference file
MaxCells == 3       \* most cells in a raster variable

-----------------------------------------------------------------------------
(* Floats. *)

NaN == <<0, 0>>
Inf == <<1, 0>>
NegInf == <<-1, 0>>
Num(k) == <<k, 1>>
IsNaN(x) == x[2] = 0 /\ x[1] = 0
IsInf(x) == x[2] = 0 /\ x[1] # 0
IsFinite(x) == x[2] > 0
Scale(x) == IF Len(x) = 3 THEN x[3] ELSE 0
Abs(k) == IF k < 0 THEN -k ELSE k
Min2(a, b) == IF a <= b THEN a ELSE b
Sign(k) == IF k < 0 THEN -1 ELSE 1

-----------------------------------------------------------------------------
(* IEEE-754 double arithmetic, round to nearest even.  A natural number of *)
(* any size is a little-endian sequence of limbs in base LimbBase; the     *)
(* magnitude of a double is <<N, e>>, the value N * 2^e with N < 2^53.     *)
(* Numerators and denominators are below 2^31 and scales below 64, so no   *)
(* operation here leaves the range of normal doubles.                      *)

LimbBits == 13
LimbBase == 8192
MantissaBits == 53

RECURSIVE Pow2(_)
Pow2(k) == IF k = 0 THEN 1 ELSE 2 * Pow2(k - 1)

Hd(x) == IF x = <<>> THEN 0 ELSE Head(x)
Tl(x) == IF x = <<>> THEN <<>> ELSE Tail(x)

RECURSIVE BigNorm(_)
BigNorm(x) ==
    IF x = <<>> THEN <<>>
    ELSE IF x[Len(x)] = 0 THEN BigNorm(SubSeq(x, 1, Len(x) - 1)) ELSE x

RECURSIVE BigAddC(_, _, _)
BigAddC(x, y, c) ==
    IF x = <<>> /\ y = <<>> THEN (IF c = 0 THEN <<>> ELSE <<c>>)
    ELSE LET t == Hd(x) + Hd(y) + c
         IN  <<t % LimbBase>> \o BigAddC(Tl(x), Tl(y), t \div LimbBase)

BigAdd(x, y) == BigAddC(x, y, 0)

\* x - y for x >= y.
RECURSIVE BigSubB(_, _, _)
BigSubB(x, y, b) ==
    IF x = <<>> /\ y = <<>> THEN <<>>
    ELSE LET t == Hd(x) - Hd(y) - b
         IN  IF t < 0 THEN <<t + LimbBase>> \o BigSubB(Tl(x), Tl(y), 1)
             ELSE <<t>> \o BigSubB(Tl(x), Tl(y), 0)

BigSub(x, y) == BigNorm(BigSubB(x, y, 0))

\* -1, 0, 1 as x <, =, > y.
RECURSIVE BigCmp(_, _)
BigCmp(x, y) ==
    IF x = <<>> /\ y = <<>> THEN 0
    ELSE LET hi == BigCmp(Tl(x), Tl(y))
         IN  IF hi # 0 THEN hi
             ELSE IF Hd(x) < Hd(y) THEN -1 ELSE IF Hd(x) > Hd(y) THEN 1 ELSE 0

\* x * m + c for a limb-sized m.
RECURSIVE BigMulSmall(_, _, _)
BigMulSmall(x, m, c) ==
    IF x = <<>> THEN (IF c = 0 THEN <<>> ELSE <<c>>)
    ELSE LET t == Head(x) * m + c
         IN  <<t % LimbBase>> \o BigMulSmall(Tail(x), m, t \div LimbBase)

RECURSIVE BigMul(_, _)
BigMul(x, y) ==
    IF y = <<>> THEN <<>>
    ELSE BigAdd(BigMulSmall(x, Head(y), 0), <<0>> \o BigMul(x, Tail(y)))

\* x * 2^k.
BigShl(x, k) ==
    IF x = <<>> THEN <<>>
    ELSE [i \in 1..(k \div LimbBits) |-> 0] \o BigMulSmall(x, Pow2(k % LimbBits), 0)

\* <<x \div d, x % d>> for 0 < d <= 2^17.
RECURSIVE BigDivSmall(_, _)
BigDivSmall(x, d) ==
    IF x = <<>> THEN <<<<>>, 0>>
    ELSE LET hi == BigDivSmall(Tail(x), d)
             cur == hi[2] * LimbBase + Head(x)
         IN  <<<<cur \div d>> \o hi[1], cur % d>>

RECURSIVE IntBitLen(_)
IntBitLen(n) == IF n = 0 THEN 0 ELSE 1 + IntBitLen(n \div 2)

BigBitLen(x) ==
    LET n == BigNorm(x)
    IN  IF n = <<>> THEN 0 ELSE LimbBits * (Len(n) - 1) + IntBitLen(n[Len(n)])

\* x \div 2^k.
BigShr(x, k) ==
    LET limbs == k \div LimbBits
    IN  IF limbs >= Len(x) THEN <<>>
        ELSE BigNorm(BigDivSmall(SubSeq(x, limbs + 1, Len(x)), Pow2(k % LimbBits))[1])

\* x / 2^k rounded to the nearest integer, ties to even (k > 0).
BigShrRound(x, k) ==
    LET q == BigShr(x, k)
        rem == BigSub(x, BigShl(q, k))
        half == BigShl(<<1>>, k - 1)
        c == BigCmp(rem, half)
    IN  IF c > 0 \/ (c = 0 /\ Hd(q) % 2 = 1) THEN BigNorm(BigAdd(q, <<1>>)) ELSE q

\* The double nearest to N * 2^e.
RoundToDouble(N, e) ==
    LET len == BigBitLen(N)
    IN  IF len <= MantissaBits THEN <<BigNorm(N), e>>
        ELSE LET k == len - MantissaBits
                 q == BigShrRound(N, k)
             IN  IF BigBitLen(q) > MantissaBits THEN <<BigShr(q, 1), e + k + 1>>
                 ELSE <<q, e + k>>

\* The largest digit q in lo..hi with q * d <= x.
RECURSIVE DigitSearch(_, _, _, _)
DigitSearch(x, d, lo, hi) ==
    IF lo = hi THEN lo
    ELSE LET mid == (lo + hi + 1) \div 2
         IN  IF BigCmp(BigMulSmall(d, mid, 0), x) <= 0 THEN DigitSearch(x, d, mid, hi)
             ELSE DigitSearch(x, d, lo, mid - 1)

\* One step of the long division by d: cur is the remainder so far with the
\* next limb appended, qhi the quotient of the higher limbs.  Each test has
\* its operand computed before the step goes on.
BigDivDigit(cur, qhi, d, digit) ==
    IF digit >= 0 THEN <<<<digit>> \o qhi, BigSub(cur, BigMulSmall(d, digit, 0))>>
    ELSE <<<<>>, <<>>>>

BigDivStep(cur, qhi, d) ==
    IF Len(cur) >= 0 THEN BigDivDigit(cur, qhi, d, DigitSearch(cur, d, 0, LimbBase - 1))
    ELSE <<<<>>, <<>>>>

\* <<x \div d, x % d>> for a divisor d > 0 of any size, a limb a step.
RECURSIVE BigDiv(_, _)
BigDiv(x, d) ==
    IF x = <<>> THEN <<<<>>, <<>>>>
    ELSE LET hi == BigDiv(Tail(x), d)
         IN  IF Len(hi[1]) >= 0 THEN BigDivStep(BigNorm(<<Head(x)>> \o hi[2]), hi[1], d)
             ELSE <<<<>>, <<>>>>

RECURSIVE BigFromInt(_)
BigFromInt(n) == IF n = 0 THEN <<>> ELSE <<n % LimbBase>> \o BigFromInt(n \div LimbBase)

\* <<(n * 2^k) \div d, whether d leaves a remainder>>: on integers where the
\* partial remainders fit one (d <= 2^17).
ShiftedDiv(n, d, k) ==
    IF d <= Pow2(17)
    THEN LET qr == BigDivSmall(BigShl(BigFromInt(n), k), d)
         IN  <<BigNorm(qr[1]), qr[2] # 0>>
    ELSE LET qr == BigDiv(BigShl(BigFromInt(n), k), BigFromInt(d))
         IN  <<BigNorm(qr[1]), qr[2] # <<>>>>

\* The double nearest to n / d: what a literal or a JSON number parses to.
\* The quotient keeps 96 fraction bits, so at least 66 bits in all, and a
\* sticky bit for the remainder, far below the rounding position.
QuotientBits == 96
ToDouble(n, d) ==
    LET qr == ShiftedDiv(n, d, QuotientBits)
        q == qr[1]
        sticky == IF qr[2] /\ Hd(q) % 2 = 0 THEN BigAdd(q, <<1>>) ELSE q
    IN  RoundToDouble(sticky, -QuotientBits)

\* The magnitude of the float x as a double.
Rescaled(m, k) == <<m[1], m[2] - k>>
Magnitude(x) == Rescaled(ToDouble(Abs(x[1]), x[2]), Scale(x))

\* |x| * |y|, rounded.
DoubleMul(x, y) == RoundToDouble(BigMul(x[1], y[1]), x[2] + y[2])

\* The two magnitudes over their common exponent.
Aligned(x, y) ==
    LET e == Min2(x[2], y[2])
    IN  <<BigShl(x[1], x[2] - e), BigShl(y[1], y[2] - e), e>>

\* |sx * x - sy * y|, rounded, for magnitudes x, y with signs sx, sy.
DoubleAbsDiff(x, sx, y, sy) ==
    LET al == Aligned(x, y)
    IN  IF sx * sy < 0 THEN RoundToDouble(BigAdd(al[1], al[2]), al[3])
        ELSE IF BigCmp(al[1], al[2]) >= 0 THEN RoundToDouble(BigSub(al[1], al[2]), al[3])
        ELSE RoundToDouble(BigSub(al[2], al[1]), al[3])

\* -1, 0, 1 as the magnitude x is below, at, above y.
DoubleCmp(x, y) ==
    LET al == Aligned(x, y)
    IN  BigCmp(BigNorm(al[1]), BigNorm(al[2]))

DoubleLeq(x, y) == DoubleCmp(x, y) <= 0

\* pytest's default absolute tolerance, the double 1e-12 = 0x1.19799812dea11p-40.
AbsTol == <<<<2577, 2415, 1632, 815, 1>>, -92>>

-----------------------------------------------------------------------------
(* pytest.approx on scalars (ApproxScalar.__eq__ and .tolerance). *)

\* Numerator and denominator of at most 512, not scaled.  Over three such values the
\* exact |r - v| and t * |r| are integers below 2^29 over the common
\* denominator, and the three roundings of the double computation move them
\* by less than 2^-22 of that unit: off a tie the exact order is the order of
\* the doubles, and two different values are different doubles more than
\* 1e-12 apart.
SmallLimit == 512
Small(x) == IsFinite(x) /\ Scale(x) = 0 /\ Abs(x[1]) <= SmallLimit /\ x[2] <= SmallLimit

\* A small value that is exact in binary: the difference and the product of
\* two of them are exact too.
ShortBinary(x) == Small(x) /\ \E k \in 0..9 : x[2] = Pow2(k)

\* Python's == on two floats.
FloatEq(a, b) ==
    IF IsNaN(a) \/ IsNaN(b) THEN FALSE
    ELSE IF ~IsFinite(a) \/ ~IsFinite(b) THEN a = b
    ELSE IF Small(a) /\ Small(b) THEN a[1] * b[2] = b[1] * a[2]
    ELSE LET x == Magnitude(a)
             y == Magnitude(b)
         IN  /\ DoubleCmp(x, y) = 0
             /\ (x[1] = <<>> \/ Sign(a[1]) = Sign(b[1]))

\* abs(expected - actual) <= max(rel * abs(expected), 1e-12), each operation
\* in doubles, for finite operands and a product rel * abs(expected) that is
\* not negative: rel >= 0, or rel < 0 and expected = 0, where the product is
\* -0.0 and the larger of -0.0 and 1e-12 is 1e-12 as it is of 0.0.
WithinTolDouble(actual, expected, tol) ==
    LET a == Magnitude(actual)
        e == Magnitude(expected)
        t == Magnitude(tol)
        diff == DoubleAbsDiff(e, Sign(expected[1]), a, Sign(actual[1]))
    IN  DoubleLeq(diff, DoubleMul(t, e)) \/ DoubleLeq(diff, AbsTol)

\* The comparison on the exact values of three small operands: -1, 0, 1 as
\* |expected - actual| is below, at, above rel * |expected|.
RelTolOrder(actual, expected, tol) ==
    LET x == Abs(expected[1] * actual[2] - actual[1] * expected[2])
        lhs == x * tol[2]
        rhs == tol[1] * Abs(expected[1]) * actual[2]
    IN  IF lhs < rhs THEN -1 ELSE IF lhs > rhs THEN 1 ELSE 0

\* The same comparison for finite operands, actual # expected and rel >= 0 or
\* expected = 0.
WithinTol(actual, expected, tol) ==
    IF Small(actual) /\ Small(expected) /\ Small(tol)
    THEN LET order == RelTolOrder(actual, expected, tol)
         IN  \/ order < 0
             \/ /\ order = 0
                /\ \/ ShortBinary(actual) /\ ShortBinary(expected) /\ ShortBinary(tol)
                   \/ WithinTolDouble(actual, expected, tol)
    ELSE WithinTolDouble(actual, expected, tol)

\* ApproxScalar.tolerance raises ValueError when rel * abs(expected) is
\* negative (-0.0 is not) or NaN (a NaN rel, or an infinite rel times 0).
\* __eq__ asks for the tolerance after the == short cut and after the tests
\* for a NaN or infinite expected, whatever actual is.
ApproxRaises(actual, expected, tol) ==
    /\ ~FloatEq(actual, expected)
    /\ IsFinite(expected)
    /\ \/ IsNaN(tol)
       \/ tol[1] < 0 /\ expected[1] # 0
       \/ IsInf(tol) /\ expected[1] = 0

\* ApproxEq with the boundary excluded.
ApproxEqMutStrict(actual, expected, tol) ==
    IF FloatEq(actual, expected) THEN TRUE
    ELSE IF ~IsFinite(expected) \/ ApproxRaises(actual, expected, tol) THEN FALSE
    ELSE IF IsNaN(actual) THEN FALSE
    ELSE IF IsInf(tol) THEN TRUE
    ELSE IF IsInf(actual) THEN FALSE
    ELSE /\ Small(actual) /\ Small(expected) /\ Small(tol)
         /\ RelTolOrder(actual, expected, tol) < 0

\* actual == pytest.approx(expected, rel=tol) where it has a value, that is
\* where ApproxRaises is false.
ApproxEq(actual, expected, tol) ==
    IF FloatEq(actual, expected) THEN TRUE
    ELSE IF ~IsFinite(expected) \/ ApproxRaises(actual, expected, tol) THEN FALSE
    ELSE IF IsNaN(actual) THEN FALSE
    ELSE IF IsInf(tol) THEN TRUE
    ELSE IF IsInf(actual) THEN FALSE
    ELSE WithinTol(actual, expected, tol)

-----------------------------------------------------------------------------
(* Dicts. *)

Keys(items) == {items[i][1] : i \in 1..Len(items)}
Lookup(items, k) == items[CHOOSE i \in 1..Len(items) : items[i][1] = k][2]
DistinctKeys(items) == \A i, j \in 1..Len(items) : items[i][1] = items[j][1] => i = j

\* Sequences over S of length at most n.
SeqUpTo(S, n) == UNION {[1..k -> S] : k \in 0..n}

\* Ordered dicts with keys in K, values in V and at most n items.
Dicts(K, V, n) == {d \in SeqUpTo(K \X V, n) : DistinctKeys(d)}

\* Log records: <<level, function, kind, band, stat>>.
LogRec(level, f, kind, band, stat) == <<level, f, kind, band, stat>>

NoResult == [kind |-> "none", type |-> "", raised_in |-> "", value |-> <<>>]
Returned(v) == [kind |-> "return", type |-> "", raised_in |-> "", value |-> v]
Raised(t, f) == [kind |-> "raise", type |-> t, raised_in |-> f, value |-> <<>>]
NoExc == [type |-> "", raised_in |-> ""]


-----------------------------------------------------------------------------
(* assert_band_statistics, lines 61-89.  One action per path through one  *)
(* iteration of the outer loop header (lines 74-80) or of the inner loop  *)
(* (lines 81-89).                                                          *)

AssertVars == <<output_band_stats, groundtruth_band_dict, tolerance>>
CallVars == <<fn, world, args>>

CurBand == output_band_stats[bi][1]
CurOut == output_band_stats[bi][2]
CurRef == groundtruth_band_dict[CurBand]
CurStat == CurRef[si][1]
CurGt == CurRef[si][2]

\* The function returns None (falls off the end of the outer loop).
AssertExitReturn ==
    IF fn = "execute_and_assert"
    THEN pc' = "exec_return" /\ UNCHANGED <<result, exc>>
    ELSE pc' = "done" /\ result' = Returned(<<>>) /\ UNCHANGED exc

\* Line 89 raises out of the function: AssertionError from the assert
\* statement, ValueError from pytest.approx.
AssertExitRaise(type) ==
    IF fn = "execute_and_assert"
    THEN /\ pc' = "exec_except"
         /\ exc' = [type |-> type, raised_in |-> "assert_band_statistics"]
         /\ UNCHANGED result
    ELSE /\ pc' = "done"
         /\ result' = Raised(type, "assert_band_statistics")
         /\ UNCHANGED exc

\* Line 73, and the iterator of line 74 is created.
AssertEnter ==
    /\ pc = "assert_enter"
    /\ log' = Append(log, LogRec("info", "assert_band_statistics", "comparing", "", ""))
    /\ bi' = 1
    /\ si' = 0
    /\ pc' = "assert_band"
    /\ UNCHANGED <<CallVars, AssertVars, handles, opened, started, exc, result>>

\* Line 74: the outer loop is exhausted.
AssertBandsDoneMutRequireAll ==
    /\ pc = "assert_band"
    /\ bi > Len(output_band_stats)
    /\ IF DOMAIN groundtruth_band_dict \subseteq Keys(output_band_stats)
       THEN AssertExitReturn
       ELSE AssertExitRaise("AssertionError")
    /\ UNCHANGED <<CallVars, AssertVars, bi, si, log, handles, opened, started>>

AssertBandsDone ==
    /\ pc = "assert_band"
    /\ bi > Len(output_band_stats)
    /\ AssertExitReturn
    /\ UNCHANGED <<CallVars, AssertVars, bi, si, log, handles, opened, started>>

\* Lines 75-78: the band is not in the reference.
AssertBandMissingMutRaise ==
    /\ pc = "assert_band"
    /\ bi <= Len(output_band_stats)
    /\ CurBand \notin DOMAIN groundtruth_band_dict
    /\ log' = Append(log, LogRec("warning", "assert_band_statistics", "band_missing", CurBand, ""))
    /\ AssertExitRaise("AssertionError")
    /\ UNCHANGED <<CallVars, AssertVars, bi, si, handles, opened, started>>

AssertBandMissing ==
    /\ pc = "assert_band"
    /\ bi <= Len(output_band_stats)
    /\ CurBand \notin DOMAIN groundtruth_band_dict
    /\ log' = Append(log, LogRec("warning", "assert_band_statistics", "band_missing", CurBand, ""))
    /\ bi' = bi + 1
    /\ UNCHANGED <<CallVars, AssertVars, pc, si, handles, opened, started, exc, result>>

\* Lines 80-81: the band is in the reference; its statistics are iterated.
AssertBandFound ==
    /\ pc = "assert_band"
    /\ bi <= Len(output_band_stats)
    /\ CurBand \in DOMAIN groundtruth_band_dict
    /\ si' = 1
    /\ pc' = "assert_stat"
    /\ UNCHANGED <<CallVars, AssertVars, bi, log, handles, opened, started, exc, result>>

\* Line 81: the inner loop is exhausted; back to line 74.
AssertStatsDone ==
    /\ pc = "assert_stat"
    /\ si > Len(CurRef)
    /\ bi' = bi + 1
    /\ si' = 0
    /\ pc' = "assert_band"
    /\ UNCHANGED <<CallVars, AssertVars, log, handles, opened, started, exc, result>>

\* Lines 82-85: the reference statistic is not in the output band.
AssertStatMissingMutSilent ==
    /\ pc = "assert_stat"
    /\ si <= Len(CurRef)
    /\ CurStat \notin DOMAIN CurOut
    /\ si' = si + 1
    /\ UNCHANGED <<CallVars, AssertVars, pc, bi, log, handles, opened, started, exc, result>>

AssertStatMissing ==
    /\ pc = "assert_stat"
    /\ si <= Len(CurRef)
    /\ CurStat \notin DOMAIN CurOut
    /\ log' = Append(log, LogRec("warning", "assert_band_statistics", "stat_missing", CurBand, CurStat))
    /\ si' = si + 1
    /\ UNCHANGED <<CallVars, AssertVars, pc, bi, handles, opened, started, exc, result>>

\* Lines 87-89: the statistic is on both sides and within tolerance.
AssertStatPass ==
    /\ pc = "assert_stat"
    /\ si <= Len(CurRef)
    /\ CurStat \in DOMAIN CurOut
    /\ ApproxEq(CurOut[CurStat], CurGt, tolerance)
    /\ log' = Append(log, LogRec("info", "assert_band_statistics", "assertion", CurBand, CurStat))
    /\ si' = si + 1
    /\ UNCHANGED <<CallVars, AssertVars, pc, bi, handles, opened, started, exc, result>>

\* Lines 87-89: the statistic is on both sides and out of tolerance.
AssertStatFailMutContinue ==
    /\ pc = "assert_stat"
    /\ si <= Len(CurRef)
    /\ CurStat \in DOMAIN CurOut
    /\ ~ApproxRaises(CurOut[CurStat], CurGt, tolerance)
    /\ ~ApproxEq(CurOut[CurStat], CurGt, tolerance)
    /\ log' = Append(log, LogRec("info", "assert_band_statistics", "assertion", CurBand, CurStat))
    /\ si' = si + 1
    /\ UNCHANGED <<CallVars, AssertVars, pc, bi, handles, opened, started, exc, result>>

AssertStatFail ==
    /\ pc = "assert_stat"
    /\ si <= Len(CurRef)
    /\ CurStat \in DOMAIN CurOut
    /\ ~ApproxRaises(CurOut[CurStat], CurGt, tolerance)
    /\ ~ApproxEq(CurOut[CurStat], CurGt, tolerance)
    /\ log' = Append(log, LogRec("info", "assert_band_statistics", "assertion", CurBand, CurStat))
    /\ AssertExitRaise("AssertionError")
    /\ UNCHANGED <<CallVars, AssertVars, bi, si, handles, opened, started>>

\* Lines 87-89: the statistic is on both sides and pytest.approx rejects the
\* tolerance with ValueError.
AssertStatInvalidTolerance ==
    /\ pc = "assert_stat"
    /\ si <= Len(CurRef)
    /\ CurStat \in DOMAIN CurOut
    /\ ApproxRaises(CurOut[CurStat], CurGt, tolerance)
    /\ log' = Append(log, LogRec("info", "assert_band_statistics", "assertion", CurBand, CurStat))
    /\ AssertExitRaise("ValueError")
    /\ UNCHANGED <<CallVars, AssertVars, bi, si, handles, opened, started>>

\* The paths taken under a tolerance that is not negative.
CompareNext ==
    \/ AssertEnter
    \/ AssertBandsDone
    \/ AssertBandMissing
    \/ AssertBandFound
    \/ AssertStatsDone
    \/ AssertStatMissing
    \/ AssertStatPass
    \/ AssertStatFail

AssertNext == CompareNext \/ AssertStatInvalidTolerance

-----------------------------------------------------------------------------
(* Direct calls of assert_band_statistics. *)

NoWorld == [geofile |-> "absent", reffile |-> "absent", records |-> <<>>,
            batch |-> "ok", outfile |-> "absent", raster |-> <<>>]
NoArgs == [scenario_name |-> "", filename |-> "", hypercube |-> <<>>]

InitAssertCall(outs, refs, tols) ==
    /\ fn = "assert_band_statistics"
    /\ pc = "assert_enter"
    /\ world = NoWorld
    /\ args = NoArgs
    /\ output_band_stats \in outs
    /\ groundtruth_band_dict \in refs
    /\ tolerance \in tols
    /\ bi = 0
    /\ si = 0
    /\ log = <<>>
    /\ handles = {}
    /\ opened = {}
    /\ started = <<>>
    /\ exc = NoExc
    /\ result = NoResult

DefaultTolerance == <<1, 100>>      \* line 129

\* Functions from a subset of K to V.
PartialFns(K, V) == UNION {[D -> V] : D \in SUBSET K}

\* The tolerance study: one band, one statistic.  Integers under tolerances
\* from -1/TolDen to 1; decimals around 1 that are not exact in binary, with
\* 0.7, 1, 7 and 10, under the default of line 129 and 0.3; NaN, the
\* infinities and a few integers under NaN, infinite and finite tolerances.
IntegerValues == {Num(k) : k \in (-MaxVal)..MaxVal}
IntegerTolerances == {<<k, TolDen>> : k \in (-1)..TolDen}
DecimalValues ==
    {<<100 + k, 100>> : k \in (-3)..3} \cup {<<7, 10>>, <<13, 10>>, Num(1), Num(7), Num(10)}
DecimalTolerances == {DefaultTolerance, <<3, 10>>}
SpecialValues == {NaN, Inf, NegInf, Num(0), Num(1), Num(-2)}
SpecialTolerances == {NaN, Inf, NegInf, <<-1, 8>>, <<0, 1>>, <<1, 8>>}

\* Values closer to each other, to the boundary or to zero than the values
\* above: <<value, reference, tolerance>>.
CloseTriples ==
    {<<<<1000000001, 1000000000>>, <<1, 1>>, <<1, 999999999>>>>,
     <<<<578134013, 578134014>>, <<1, 1>>, <<1, 578134015>>>>,
     <<<<1339795530, 1339795529>>, <<1, 1>>, <<1, 1339795528>>>>,
     <<<<578134015, 578134014>>, <<1, 1>>, <<1, 578134015>>>>,
     <<<<1000000001, 1000000000>>, <<1000000002, 1000000001>>, <<0, 1>>>>,
     <<<<1000000001, 1000000000>>, <<1000000002, 1000000001>>, <<-1, 8>>>>,
     <<<<2000001, 2000000>>, <<2000002, 2000001>>, <<0, 1>>>>,
     <<<<1, 10, 40>>, <<0, 1>>, <<-1, 8>>>>,
     <<<<1, 10, 40>>, <<0, 1>>, <<1, 8>>>>,
     <<<<-1, 1, 44>>, <<0, 1>>, <<-1, 1000000000>>>>,
     <<<<1, 1, 39>>, <<0, 1>>, <<-1, 8>>>>,
     <<<<1, 1, 39>>, <<0, 1>>, <<1, 8>>>>,
     <<<<1, 1000000000>>, <<0, 1>>, <<-1, 8>>>>,
     <<<<3, 1, 44>>, <<1, 1, 43>>, <<0, 1>>>>,
     <<<<3, 1, 44>>, <<1, 1, 43>>, <<-1, 8>>>>,
     <<<<3, 1, 44>>, <<-1, 1, 39>>, <<1, 3>>>>,
     <<<<1, 1, 60>>, <<1, 1>>, <<1, 1, 61>>>>}

ToleranceOutputs(V) == {<<<<"B01", [s \in {"mean"} |-> v]>>>> : v \in V}
ToleranceRefs(R) == {[b \in {"B01"} |-> <<<<"mean", r>>>>] : r \in R}

InitTolerance ==
    \/ InitAssertCall(ToleranceOutputs(IntegerValues), ToleranceRefs(IntegerValues),
                      IntegerTolerances)
    \/ InitAssertCall(ToleranceOutputs(DecimalValues), ToleranceRefs(DecimalValues),
                      DecimalTolerances)
    \/ InitAssertCall(ToleranceOutputs(SpecialValues), ToleranceRefs(SpecialValues),
                      SpecialTolerances)
    \/ \E c \in CloseTriples :
          InitAssertCall(ToleranceOutputs({c[1]}), ToleranceRefs({c[2]}), {c[3]})

\* With the band and the statistic on both sides, these are the paths taken.
ToleranceNext ==
    \/ AssertEnter
    \/ AssertBandsDone
    \/ AssertBandFound
    \/ AssertStatsDone
    \/ AssertStatPass
    \/ AssertStatFail
    \/ AssertStatInvalidTolerance

SpecTolerance == InitTolerance /\ [][ToleranceNext]_vars

\* The comparison study: every shape of output and reference over a few names.
BandNames == {"B01", "B02", "B03"}
RefBandNames == {"B01", "B02"}
StatNames == {"mean", "max"}
CompareOutValues == {Num(9), Num(10)}
CompareRefValues == {Num(8)}
CompareTolerances == {<<1, 8>>}

CompareOutputs == Dicts(BandNames, PartialFns(StatNames, CompareOutValues), MaxBands)
CompareRefBands == Dicts(StatNames, CompareRefValues, MaxStats)
CompareRefs == PartialFns(RefBandNames, CompareRefBands)

InitCompare == InitAssertCall(CompareOutputs, CompareRefs, CompareTolerances)

SpecCompare == InitCompare /\ [][CompareNext]_vars

-----------------------------------------------------------------------------------------------------------------------------------------------------
(* calculate_band_statistics, lines 91-124.  A raster variable is          *)
(* <<name, cells>>, a cell a float.  xarray's reductions skip NaN cells    *)
(* by default and reduce a variable whose cells are all NaN to NaN; an    *)
(* infinite cell is a value like any other and goes into every reduction; *)
(* the minimum of a variable with no cell at all (line 110) raises        *)
(* ValueError.  Finite cells are far from the overflow of doubles; on the *)
(* integer cells of the rasters below the reductions of lines 108-112 are *)
(* exact, on other cells the doubles they compute can differ in the last  *)
(* place from the double nearest to the rational given here.              *)

StatFields == {"mean", "variance", "min", "max", "quantile25", "quantile50", "quantile75"}

\* a <= b for two floats, neither NaN.
FloatLeq(a, b) ==
    IF a = NegInf \/ b = Inf THEN TRUE
    ELSE IF a = Inf \/ b = NegInf THEN FALSE
    ELSE a[1] * b[2] <= b[1] * a[2]

RECURSIVE SumSeq(_)
SumSeq(xs) == IF xs = <<>> THEN 0 ELSE Head(xs) + SumSeq(Tail(xs))

\* The cells a reduction takes in (skipna): all but NaN, infinities included.
ValidCells(cells) == SelectSeq(cells, LAMBDA c : ~IsNaN(c))

\* The k-th smallest element (1-based) of a non-empty sequence of such cells.
Kth(xs, k) ==
    CHOOSE x \in {xs[i] : i \in 1..Len(xs)} :
        /\ Cardinality({i \in 1..Len(xs) : ~FloatLeq(x, xs[i])}) < k
        /\ k <= Cardinality({i \in 1..Len(xs) : FloatLeq(xs[i], x)})

\* Finite cells over their common denominator.
RECURSIVE CommonDen(_)
CommonDen(xs) == IF xs = <<>> THEN 1 ELSE Head(xs)[2] * CommonDen(Tail(xs))
Numerators(xs) == [i \in 1..Len(xs) |-> xs[i][1] * (CommonDen(xs) \div xs[i][2])]

\* Line 108.  The sum of cells with an infinity among them is that infinity,
\* and NaN when both infinities are there.
Mean(xs) ==
    LET infs == {xs[i] : i \in 1..Len(xs)} \cap {Inf, NegInf}
    IN  IF infs = {} THEN <<SumSeq(Numerators(xs)), Len(xs) * CommonDen(xs)>>
        ELSE IF infs = {Inf} THEN Inf
        ELSE IF infs = {NegInf} THEN NegInf
        ELSE NaN

\* Line 109: the mean of the squared distances to the mean.  The distance of
\* an infinite cell to a mean that is infinite or NaN is NaN.
Variance(xs) ==
    LET n == Len(xs)
        ns == Numerators(xs)
        sum == SumSeq(ns)
        sumsq == SumSeq([i \in 1..n |-> ns[i] * ns[i]])
    IN  IF \E i \in 1..n : IsInf(xs[i]) THEN NaN
        ELSE <<n * sumsq - sum * sum, n * n * CommonDen(xs) * CommonDen(xs)>>

\* Line 112, numpy's default (linear) quantile q = k/4: the virtual index
\* (n-1)*q is interpolated between its two neighbours a, b in the sorted
\* cells.  Between finite neighbours the value is a + (b - a) * rem/4.  With
\* an infinite neighbour the interpolation meets inf - inf or inf * 0 at a
\* place that depends on how the installed numpy arranges it: the outcome is
\* NaN or one of the neighbours.
Quantile(xs, k) ==
    LET n == Len(xs)
        h == (n - 1) * k
        lo == h \div 4
        rem == h % 4
        a == Kth(xs, lo + 1)
        b == Kth(xs, Min2(lo + 2, n))
    IN  IF IsFinite(a) /\ IsFinite(b)
        THEN {<<4 * a[1] * b[2] + rem * (b[1] * a[2] - a[1] * b[2]), 4 * a[2] * b[2]>>}
        ELSE {NaN, a, b}

\* Lines 108-122: the seven statistics of one variable that has a cell, one
\* record for every outcome of the quantiles.
BandStatistics(cells) ==
    LET xs == ValidCells(cells)
        n == Len(xs)
    IN  IF n = 0 THEN {[f \in StatFields |-> NaN]}
        ELSE {[f \in StatFields |->
                 CASE f = "mean" -> Mean(xs)
                   [] f = "variance" -> Variance(xs)
                   [] f = "min" -> Kth(xs, 1)
                   [] f = "max" -> Kth(xs, n)
                   [] f = "quantile25" -> q[1]
                   [] f = "quantile50" -> q[2]
                   [] f = "quantile75" -> q[3]] :
              q \in Quantile(xs, 1) \X Quantile(xs, 2) \X Quantile(xs, 3)}

\* Line 104: the data variables other than "crs", in the dataset's order.
BandVarsMutKeepCrs(hypercube) == hypercube

BandVars(hypercube) == SelectSeq(hypercube, LAMBDA v : v[1] # "crs")

\* Line 110: min() of a variable with no cell raises.
CalcRaises(hypercube) ==
    \E i \in 1..Len(BandVars(hypercube)) : BandVars(hypercube)[i][2] = <<>>

\* The items of the returned dict for these variables, one sequence for
\* every outcome.
RECURSIVE BandItems(_)
BandItems(bands) ==
    IF bands = <<>> THEN {<<>>}
    ELSE {<<<<Head(bands)[1], st>>>> \o rest :
            st \in BandStatistics(Head(bands)[2]), rest \in BandItems(Tail(bands))}

\* Lines 103-124, when no variable is empty.
CalcStatistics(hypercube) == BandItems(BandVars(hypercube))

\* A direct call of calculate_band_statistics that returns.
CalcReturn ==
    /\ pc = "calc_enter"
    /\ ~CalcRaises(args.hypercube)
    /\ \E out \in CalcStatistics(args.hypercube) : result' = Returned(out)
    /\ pc' = "done"
    /\ UNCHANGED <<CallVars, AssertVars, bi, si, log, handles, opened, started, exc>>

\* A direct call that raises out of line 110.
CalcRaise ==
    /\ pc = "calc_enter"
    /\ CalcRaises(args.hypercube)
    /\ result' = Raised("ValueError", "calculate_band_statistics")
    /\ pc' = "done"
    /\ UNCHANGED <<CallVars, AssertVars, bi, si, log, handles, opened, started, exc>>

CalcCall == CalcReturn \/ CalcRaise

-----
(* The two loaders.  A handler that logs and re-raises (lines 29-31,      *)
(* 57-59) hands the exception to execute_and_assert's handler when the    *)
(* function was called from there, and to the test otherwise.             *)

LoaderRaise(type, f) ==
    IF fn = "execute_and_assert"
    THEN /\ pc' = "exec_except"
         /\ exc' = [type |-> type, raised_in |-> f]
         /\ UNCHANGED result
    ELSE /\ pc' = "done"
         /\ result' = Raised(type, f)
         /\ UNCHANGED exc

\* extract_test_geometries, lines 15-31.
GeomEnter ==
    /\ pc = "geom_enter"
    /\ log' = Append(log, LogRec("info", "extract_test_geometries", "reading", "", ""))
    /\ pc' = "geom_open"
    /\ UNCHANGED <<CallVars, AssertVars, bi, si, handles, opened, started, exc, result>>

\* Line 25: open() raises; lines 29-31 log and re-raise.
GeomOpenFail ==
    /\ pc = "geom_open"
    /\ world.geofile = "absent"
    /\ log' = Append(log, LogRec("error", "extract_test_geometries", "FileNotFoundError", "", ""))
    /\ LoaderRaise("FileNotFoundError", "extract_test_geometries")
    /\ UNCHANGED <<CallVars, AssertVars, bi, si, handles, opened, started>>

\* Line 25: the with statement holds the open file.
GeomOpen ==
    /\ pc = "geom_open"
    /\ world.geofile # "absent"
    /\ handles' = handles \cup {"geofile"}
    /\ opened' = opened \cup {"geofile"}
    /\ pc' = "geom_load"
    /\ UNCHANGED <<CallVars, AssertVars, bi, si, log, started, exc, result>>

\* Line 26 raises: the with statement closes the file, lines 29-31 log and re-raise.
GeomLoadFail ==
    /\ pc = "geom_load"
    /\ world.geofile = "malformed"
    /\ handles' = handles \ {"geofile"}
    /\ log' = Append(log, LogRec("error", "extract_test_geometries", "ParseError", "", ""))
    /\ LoaderRaise("ParseError", "extract_test_geometries")
    /\ UNCHANGED <<CallVars, AssertVars, bi, si, opened, started>>

\* Lines 26-27: the with statement closes the file and the collection is returned.
GeomLoad ==
    /\ pc = "geom_load"
    /\ world.geofile = "ok"
    /\ handles' = handles \ {"geofile"}
    /\ result' = Returned(<<"geometry_collection", args.filename>>)
    /\ pc' = "done"
    /\ UNCHANGED <<CallVars, AssertVars, bi, si, log, opened, started, exc>>

GeomNext == GeomEnter \/ GeomOpenFail \/ GeomOpen \/ GeomLoadFail \/ GeomLoad

\* Lines 51-53: the index of the first record of the scenario, 0 when there is none.
FirstMatchMutLast(records, name) ==
    IF \E i \in 1..Len(records) : records[i].scenario_name = name
    THEN CHOOSE i \in 1..Len(records) :
            /\ records[i].scenario_name = name
            /\ \A j \in (i + 1)..Len(records) : records[j].scenario_name # name
    ELSE 0

FirstMatch(records, name) ==
    IF \E i \in 1..Len(records) : records[i].scenario_name = name
    THEN CHOOSE i \in 1..Len(records) :
            /\ records[i].scenario_name = name
            /\ \A j \in 1..(i - 1) : records[j].scenario_name # name
    ELSE 0

\* extract_reference_band_statistics, lines 33-59.
ExtractEnter ==
    /\ pc = "extract_enter"
    /\ log' = Append(log, LogRec("info", "extract_reference_band_statistics", "extracting", "", ""))
    /\ pc' = "extract_open"
    /\ UNCHANGED <<CallVars, AssertVars, bi, si, handles, opened, started, exc, result>>

\* Line 48: open() raises; lines 57-59 log and re-raise.
ExtractOpenFail ==
    /\ pc = "extract_open"
    /\ world.reffile = "absent"
    /\ log' = Append(log, LogRec("error", "extract_reference_band_statistics", "FileNotFoundError", "", ""))
    /\ LoaderRaise("FileNotFoundError", "extract_reference_band_statistics")
    /\ UNCHANGED <<CallVars, AssertVars, bi, si, handles, opened, started>>

ExtractOpen ==
    /\ pc = "extract_open"
    /\ world.reffile # "absent"
    /\ handles' = handles \cup {"reffile"}
    /\ opened' = opened \cup {"reffile"}
    /\ pc' = "extract_load"
    /\ UNCHANGED <<CallVars, AssertVars, bi, si, log, started, exc, result>>

\* Line 49 raises: the with statement closes the file, lines 57-59 log and re-raise.
ExtractLoadFail ==
    /\ pc = "extract_load"
    /\ world.reffile = "malformed"
    /\ handles' = handles \ {"reffile"}
    /\ log' = Append(log, LogRec("error", "extract_reference_band_statistics", "ParseError", "", ""))
    /\ LoaderRaise("ParseError", "extract_reference_band_statistics")
    /\ UNCHANGED <<CallVars, AssertVars, bi, si, opened, started>>

\* Line 49: the file is parsed and the with statement closes it.
ExtractLoad ==
    /\ pc = "extract_load"
    /\ world.reffile = "ok"
    /\ handles' = handles \ {"reffile"}
    /\ pc' = "extract_scan"
    /\ UNCHANGED <<CallVars, AssertVars, bi, si, log, opened, started, exc, result>>

\* Lines 51-53: the scan finds the scenario and returns its reference_data.
ExtractFound ==
    /\ pc = "extract_scan"
    /\ FirstMatch(world.records, args.scenario_name) # 0
    /\ LET data == world.records[FirstMatch(world.records, args.scenario_name)].reference_data
       IN  IF fn = "execute_and_assert"
           THEN /\ groundtruth_band_dict' = data
                /\ pc' = "exec_assert"
                /\ UNCHANGED result
           ELSE /\ result' = Returned(data)
                /\ pc' = "done"
                /\ UNCHANGED groundtruth_band_dict
    /\ UNCHANGED <<CallVars, output_band_stats, tolerance, bi, si, log, handles, opened, started, exc>>

\* Line 55 raises ValueError; lines 57-59 log and re-raise.
ExtractNotFoundMutNoLog ==
    /\ pc = "extract_scan"
    /\ FirstMatch(world.records, args.scenario_name) = 0
    /\ LoaderRaise("ValueError", "extract_reference_band_statistics")
    /\ UNCHANGED <<CallVars, AssertVars, bi, si, log, handles, opened, started>>

ExtractNotFound ==
    /\ pc = "extract_scan"
    /\ FirstMatch(world.records, args.scenario_name) = 0
    /\ log' = Append(log, LogRec("error", "extract_reference_band_statistics", "ValueError", "", ""))
    /\ LoaderRaise("ValueError", "extract_reference_band_statistics")
    /\ UNCHANGED <<CallVars, AssertVars, bi, si, handles, opened, started>>

ExtractNext ==
    \/ ExtractEnter
    \/ ExtractOpenFail
    \/ ExtractOpen
    \/ ExtractLoadFail
    \/ ExtractLoad
    \/ ExtractFound
    \/ ExtractNotFound

-----------------------------------------------------------------------------
(* execute_and_assert, lines 126-158.  Each call of the try block is one  *)
(* step; extract_reference_band_statistics and assert_band_statistics run *)
(* their own actions above and come back to exec_assert / exec_return, or *)
(* to the handler of lines 156-158 at exec_except.                        *)

ExecSteps == <<"execute_batch", "open_dataset", "calculate_band_statistics",
               "extract_reference_band_statistics", "assert_band_statistics">>

\* Line 146: the batch job fails.
ExecBatchFail ==
    /\ pc = "exec_batch"
    /\ world.batch = "error"
    /\ started' = Append(started, "execute_batch")
    /\ exc' = [type |-> "JobFailedException", raised_in |-> "execute_batch"]
    /\ pc' = "exec_except"
    /\ UNCHANGED <<CallVars, AssertVars, bi, si, log, handles, opened, result>>

\* Line 146: the batch job finishes and its result is written to output_path.
ExecBatchOk ==
    /\ pc = "exec_batch"
    /\ world.batch = "ok"
    /\ started' = Append(started, "execute_batch")
    /\ pc' = "exec_open"
    /\ UNCHANGED <<CallVars, AssertVars, bi, si, log, handles, opened, exc, result>>

\* Line 152: xr.open_dataset raises.
ExecOpenFail ==
    /\ pc = "exec_open"
    /\ world.outfile = "absent"
    /\ started' = Append(started, "open_dataset")
    /\ exc' = [type |-> "FileNotFoundError", raised_in |-> "open_dataset"]
    /\ pc' = "exec_except"
    /\ UNCHANGED <<CallVars, AssertVars, bi, si, log, handles, opened, result>>

\* Line 152: the dataset is opened (lazily: the file stays open behind it).
ExecOpenOk ==
    /\ pc = "exec_open"
    /\ world.outfile # "absent"
    /\ started' = Append(started, "open_dataset")
    /\ handles' = handles \cup {"dataset"}
    /\ opened' = opened \cup {"dataset"}
    /\ pc' = "exec_calc"
    /\ UNCHANGED <<CallVars, AssertVars, bi, si, log, exc, result>>

\* The values of a truncated file cannot be read: its variables are listed
\* (line 104), and the first reduction of the first band (line 108) raises.
\* With no band, nothing is read.
ReadRaises(w) == w.outfile = "truncated" /\ BandVars(w.raster) # <<>>

\* Line 153: reading the values of a truncated file raises, and so does the
\* minimum of a variable with no cell.
ExecCalcFail ==
    /\ pc = "exec_calc"
    /\ ReadRaises(world) \/ CalcRaises(world.raster)
    /\ started' = Append(started, "calculate_band_statistics")
    /\ exc' = [type |-> IF ReadRaises(world) THEN "OSError" ELSE "ValueError",
               raised_in |-> "calculate_band_statistics"]
    /\ pc' = "exec_except"
    /\ UNCHANGED <<CallVars, AssertVars, bi, si, log, handles, opened, result>>

\* Line 153.
ExecCalc ==
    /\ pc = "exec_calc"
    /\ ~ReadRaises(world)
    /\ ~CalcRaises(world.raster)
    /\ started' = Append(started, "calculate_band_statistics")
    /\ output_band_stats' \in CalcStatistics(world.raster)
    /\ pc' = "exec_extract"
    /\ UNCHANGED <<CallVars, groundtruth_band_dict, tolerance, bi, si, log, handles,
                   opened, exc, result>>

\* Line 154: the call is made.
ExecExtract ==
    /\ pc = "exec_extract"
    /\ started' = Append(started, "extract_reference_band_statistics")
    /\ pc' = "extract_enter"
    /\ UNCHANGED <<CallVars, AssertVars, bi, si, log, handles, opened, exc, result>>

\* Line 155: the call is made.
ExecAssert ==
    /\ pc = "exec_assert"
    /\ started' = Append(started, "assert_band_statistics")
    /\ pc' = "assert_enter"
    /\ UNCHANGED <<CallVars, AssertVars, bi, si, log, handles, opened, exc, result>>

\* The try block is done and the function returns None.  Nothing closes
\* output_cube: the file behind it is released only if the interpreter
\* happens to finalise the dataset when the local goes away.
ExecReturn ==
    /\ pc = "exec_return"
    /\ \E finalised \in BOOLEAN :
          handles' = IF finalised THEN handles \ {"dataset"} ELSE handles
    /\ result' = Returned(<<>>)
    /\ pc' = "done"
    /\ UNCHANGED <<CallVars, AssertVars, bi, si, log, opened, started, exc>>

\* Lines 156-158: log and re-raise.  The traceback of the exception in
\* flight keeps the frame, and with it output_cube, alive.
ExecExceptMutTranslate ==
    /\ pc = "exec_except"
    /\ log' = Append(log, LogRec("error", "execute_and_assert", exc.type, "", ""))
    /\ result' = Raised("RuntimeError", "execute_and_assert")
    /\ pc' = "done"
    /\ UNCHANGED <<CallVars, AssertVars, bi, si, handles, opened, started, exc>>

ExecExcept ==
    /\ pc = "exec_except"
    /\ log' = Append(log, LogRec("error", "execute_and_assert", exc.type, "", ""))
    /\ result' = Raised(exc.type, exc.raised_in)
    /\ pc' = "done"
    /\ UNCHANGED <<CallVars, AssertVars, bi, si, handles, opened, started, exc>>

ExecNext ==
    \/ ExecBatchFail
    \/ ExecBatchOk
    \/ ExecOpenFail
    \/ ExecOpenOk
    \/ ExecCalcFail
    \/ ExecCalc
    \/ ExecExtract
    \/ ExecAssert
    \/ ExecReturn
    \/ ExecExcept

-----------------------------------------------------------------------------
(* The calls a test can make. *)

InitCall(f, entry, worlds, arguments, tols) ==
    /\ fn = f
    /\ pc = entry
    /\ world \in worlds
    /\ args \in arguments
    /\ output_band_stats = <<>>
    /\ groundtruth_band_dict = <<>>
    /\ tolerance \in tols
    /\ bi = 0
    /\ si = 0
    /\ log = <<>>
    /\ handles = {}
    /\ opened = {}
    /\ started = <<>>
    /\ exc = NoExc
    /\ result = NoResult

FileStates == {"absent", "malformed", "ok"}
FileNames == {"fields.geojson", "alps.geojson"}

InitGeometry ==
    InitCall("extract_test_geometries", "geom_enter",
             {[NoWorld EXCEPT !.geofile = g] : g \in FileStates},
             {[NoArgs EXCEPT !.filename = f] : f \in FileNames},
             {DefaultTolerance})

\* Reference files: records {scenario_name, reference_data}.
ScenarioNames == {"s1", "s2"}
RequestedNames == {"s1", "s2", "s3"}
RefDatas ==
    { [b \in {"B01"} |-> <<<<"mean", <<3, 2>>>>, <<"max", Num(2)>>>>],
      [b \in {"B01"} |-> <<<<"mean", Num(2)>>>>],
      [b \in {"B03"} |-> <<<<"mean", Num(5)>>>>] }
RefRecords == [scenario_name : ScenarioNames, reference_data : RefDatas]
RefFiles == SeqUpTo(RefRecords, MaxRecords)
RefWorlds ==
    {[NoWorld EXCEPT !.reffile = "ok", !.records = r] : r \in RefFiles}
    \cup {[NoWorld EXCEPT !.reffile = f] : f \in {"absent", "malformed"}}

InitReference ==
    InitCall("extract_reference_band_statistics", "extract_enter",
             RefWorlds,
             {[NoArgs EXCEPT !.scenario_name = n] : n \in RequestedNames},
             {DefaultTolerance})

SpecReference == InitReference /\ [][ExtractNext]_vars

\* Rasters: every order of distinct variables; the first band has any run of
\* at most MaxCells cells, none included, the second at most one cell.
VarNames == {"B01", "B02", "crs"}
CellValues == {NaN, Inf, NegInf, Num(1), Num(2)}
CellSeqs == SeqUpTo(CellValues, MaxCells)
ShortCellSeqs == SeqUpTo(CellValues, 1)
VarOrders == {o \in SeqUpTo(VarNames, Cardinality(VarNames)) :
                \A i, j \in 1..Len(o) : o[i] = o[j] => i = j}
MkRaster(order, cells) ==
    [i \in 1..Len(order) |->
        <<order[i], IF order[i] = "crs" THEN <<Num(0)>> ELSE cells[order[i]]>>]
Rasters ==
    {MkRaster(o, c) : o \in VarOrders,
                      c \in {f \in [VarNames \ {"crs"} -> CellSeqs] : f["B02"] \in ShortCellSeqs}}

InitStatistics ==
    InitCall("calculate_band_statistics", "calc_enter",
             {NoWorld},
             {[NoArgs EXCEPT !.hypercube = h] : h \in Rasters},
             {DefaultTolerance})

SpecStatistics == InitStatistics /\ [][CalcCall]_vars

\* execute_and_assert: a few rasters against every reference file.
ExecRasters ==
    { <<>>,
      <<<<"crs", <<Num(0)>>>>>>,
      <<<<"crs", <<Num(0)>>>>, <<"B01", <<Num(1), Num(2)>>>>>>,
      <<<<"B01", <<Num(1), Num(2)>>>>, <<"B02", <<NaN>>>>>>,
      <<<<"B01", <<Num(1)>>>>, <<"B02", <<>>>>>>,
      <<<<"B02", <<Num(2), Num(2)>>>>>> }
ExecTolerances == {DefaultTolerance, <<1, 4>>}
ExecWorlds ==
    {[geofile |-> "absent", reffile |-> w.reffile, records |-> w.records,
      batch |-> b, outfile |-> o, raster |-> r] :
        w \in RefWorlds, b \in {"ok", "error"},
        o \in {"absent", "truncated", "ok"}, r \in ExecRasters}

InitExecute ==
    InitCall("execute_and_assert", "exec_batch",
             {w \in ExecWorlds : w.outfile = "absent" => w.raster = <<>>},
             {[NoArgs EXCEPT !.scenario_name = n] : n \in RequestedNames},
             ExecTolerances)

Init ==
    \/ InitGeometry
    \/ InitReference
    \/ InitStatistics
    \/ InitTolerance
    \/ InitCompare
    \/ InitExecute

Next == GeomNext \/ ExtractNext \/ CalcCall \/ AssertNext \/ ExecNext

Spec == Init /\ [][Next]_vars

-----------------------------------------------------------------------------
(* What the specification says of a run, stated on the inputs and the log. *)

LastLog == log[Len(log)]
ErrorLogs == {k \in 1..Len(log) : log[k][1] = "error"}
AboutBand(b) == {k \in 1..Len(log) : log[k][4] = b}
AboutStat(b, s) == {k \in 1..Len(log) : log[k][4] = b /\ log[k][5] = s}
IsPrefix(s, t) == Len(s) <= Len(t) /\ \A i \in 1..Len(s) : s[i] = t[i]

\* The (band, statistic) pairs on both sides, computed bands outer and the
\* band's reference statistics inner.
BandPairs(i) ==
    LET b == output_band_stats[i][1]
    IN  IF b \notin DOMAIN groundtruth_band_dict THEN <<>>
        ELSE LET common == SelectSeq(groundtruth_band_dict[b],
                               LAMBDA it : it[1] \in DOMAIN output_band_stats[i][2])
             IN  [k \in 1..Len(common) |-> <<b, common[k][1]>>]

RECURSIVE PairsFrom(_)
PairsFrom(i) ==
    IF i > Len(output_band_stats) THEN <<>> ELSE BandPairs(i) \o PairsFrom(i + 1)

ExpectedPairs == PairsFrom(1)

PairInTol(p) ==
    ApproxEq(Lookup(output_band_stats, p[1])[p[2]],
             Lookup(groundtruth_band_dict[p[1]], p[2]), tolerance)

OutOfTol == {i \in 1..Len(ExpectedPairs) : ~PairInTol(ExpectedPairs[i])}

\* The pairs whose comparison was logged (line 87), in order.
Compared ==
    LET a == SelectSeq(log, LAMBDA e : e[3] = "assertion")
    IN  [k \in 1..Len(a) |-> <<a[k][4], a[k][5]>>]

\* The value and the reference of the tolerance study.
TolV == output_band_stats[1][2]["mean"]
TolR == groundtruth_band_dict["B01"][1][2]
TolFinite == IsFinite(TolV) /\ IsFinite(TolR) /\ IsFinite(tolerance)

\* |sx * x - sy * y| and |x| * |y| of doubles as they are, not rounded, and
\* x * (1 + 2^-51).
ExactAbsDiff(x, sx, y, sy) ==
    LET al == Aligned(x, y)
    IN  IF sx * sy < 0 THEN <<BigAdd(al[1], al[2]), al[3]>>
        ELSE IF BigCmp(al[1], al[2]) >= 0 THEN <<BigSub(al[1], al[2]), al[3]>>
        ELSE <<BigSub(al[2], al[1]), al[3]>>
ExactMul(x, y) == <<BigMul(x[1], y[1]), x[2] + y[2]>>
Widened(x) == <<BigAdd(BigShl(x[1], 51), x[1]), x[2] - 51>>

\* |v - r| and |t| * |r| of the doubles v, r, t.
TolDistance(v, r) == ExactAbsDiff(Magnitude(r), Sign(r[1]), Magnitude(v), Sign(v[1]))
TolProduct(r, t) == ExactMul(Magnitude(t), Magnitude(r))

\* Where |v - r| lies against the larger of |t| * |r| and 1e-12: "within" when
\* it is at most that bound, "beyond" when it is above the bound by more than
\* a relative 2^-51, "sliver" in between.
TolPosition(distance, product) ==
    LET bound == IF DoubleLeq(product, AbsTol) THEN AbsTol ELSE product
    IN  IF DoubleLeq(distance, bound) THEN "within"
        ELSE IF DoubleLeq(distance, Widened(bound)) THEN "sliver"
        ELSE "beyond"
TolClass(v, r, t) == TolPosition(TolDistance(v, r), TolProduct(r, t))

TolPassed == result = Returned(<<>>)
TolFailed == result = Raised("AssertionError", "assert_band_statistics")
TolRejected == result = Raised("ValueError", "assert_band_statistics")

\* C1 as stated, read on the doubles and for tolerances that are not negative:
\* the call returns iff |v - r| <= t * |r| or |v - r| <= 1e-12, and raises
\* AssertionError otherwise.
C1_ExactBoundary ==
    (pc = "done" /\ TolFinite /\ tolerance[1] >= 0) =>
        IF TolClass(TolV, TolR, tolerance) = "within" THEN TolPassed ELSE TolFailed

\* C1 as amended, for finite doubles v, r and a finite tolerance t.  The one
\* pair is compared.  Under t >= 0 the call returns when |v - r| is at most
\* the larger of t * |r| and 1e-12 (the boundary included), raises
\* AssertionError when |v - r| is above that bound by more than a relative
\* 2^-51, and in between returns or raises AssertionError as the roundings of
\* v - r and t * |r| fall.  Under t < 0 it returns when v = r, raises
\* ValueError when r # 0, and with r = 0 returns when |v| <= 1e-12 and raises
\* AssertionError above.
C1_ToleranceBoundary ==
    pc = "done" =>
        /\ Compared = <<<<"B01", "mean">>>>
        /\ result.kind = "raise" => result.raised_in = "assert_band_statistics"
        /\ TolFinite =>
              LET class == TolClass(TolV, TolR, tolerance)
              IN  IF tolerance[1] >= 0
                  THEN /\ class = "within" => TolPassed
                       /\ class = "beyond" => TolFailed
                       /\ class = "sliver" => TolPassed \/ TolFailed
                  ELSE IF TolDistance(TolV, TolR)[1] = <<>> THEN TolPassed
                  ELSE IF TolR[1] # 0 THEN TolRejected
                  ELSE IF TolClass(TolV, TolR, Num(0)) = "within" THEN TolPassed
                  ELSE TolFailed

\* A value exactly at the boundary t * |r|, above 1e-12 and so not equal to
\* the reference, passed.
C1_Witness ==
    /\ pc = "done"
    /\ TolPassed
    /\ TolFinite
    /\ tolerance[1] > 0
    /\ DoubleCmp(TolDistance(TolV, TolR), TolProduct(TolR, tolerance)) = 0
    /\ ~DoubleLeq(TolDistance(TolV, TolR), AbsTol)

\* C2: the pairs compared are a prefix of the iteration order, all but the last
\* within tolerance; a pair out of tolerance ends the call at once with
\* AssertionError and is the last thing logged; the call ends by raising at the
\* first pair out of tolerance, and by returning after every pair if there is none.
C2_FirstFailureStops ==
    LET expected == ExpectedPairs
        compared == Compared
        bad == {i \in 1..Len(expected) : ~PairInTol(expected[i])}
    IN  /\ IsPrefix(compared, expected)
        /\ \A i \in 1..(Len(compared) - 1) : i \notin bad
        /\ Len(compared) \in bad =>
              /\ pc = "done"
              /\ result = Raised("AssertionError", "assert_band_statistics")
              /\ LastLog[3] = "assertion"
        /\ pc = "done" =>
              IF bad = {}
              THEN result = Returned(<<>>) /\ compared = expected
              ELSE /\ result = Raised("AssertionError", "assert_band_statistics")
                   /\ \A i \in bad : Len(compared) <= i

\* The call raised at the first of several pairs out of tolerance, after a pair that passed.
C2_Witness ==
    /\ pc = "done"
    /\ result.kind = "raise"
    /\ Len(Compared) >= 2
    /\ Cardinality(OutOfTol) >= 2

\* C3: a computed band that the reference lacks gets exactly one log record, the
\* warning, once the loop has passed it and none before; the call never raises
\* at such a band; and a pair out of tolerance in a later band still makes the
\* call raise.
C3_MissingBandSkipped ==
    \A i \in 1..Len(output_band_stats) :
        LET b == output_band_stats[i][1]
        IN  b \notin DOMAIN groundtruth_band_dict =>
              /\ i < bi => \E k \in 1..Len(log) :
                              /\ AboutBand(b) = {k}
                              /\ log[k] = LogRec("warning", "assert_band_statistics",
                                                 "band_missing", b, "")
              /\ i >= bi => AboutBand(b) = {}
              /\ (pc = "done" /\ result.kind = "raise") => bi # i
              /\ (pc = "done" /\ result.kind = "return") => bi > i
              /\ (pc = "done" /\ \E j \in (i + 1)..Len(output_band_stats) :
                                    \E k \in 1..Len(BandPairs(j)) : ~PairInTol(BandPairs(j)[k]))
                    => result.kind = "raise"

\* A band missing from the reference was skipped and a later band then failed.
C3_Witness ==
    /\ pc = "done"
    /\ result.kind = "raise"
    /\ \E i \in 1..(bi - 1) : output_band_stats[i][1] \notin DOMAIN groundtruth_band_dict

\* C4 as stated: after a call that returned, every statistic of a band on both
\* sides that is missing on either side has a warning in the log.
C4_EitherSideLogged ==
    (pc = "done" /\ result.kind = "return") =>
        \A i \in 1..Len(output_band_stats) :
            LET b == output_band_stats[i][1]
            IN  b \in DOMAIN groundtruth_band_dict =>
                  \A s \in (DOMAIN output_band_stats[i][2] \ Keys(groundtruth_band_dict[b]))
                           \cup (Keys(groundtruth_band_dict[b]) \ DOMAIN output_band_stats[i][2]) :
                      \E k \in AboutStat(b, s) : log[k][1] = "warning"

\* C4 as amended: a reference statistic the output band lacks gets exactly one
\* log record, the warning, once the inner loop has passed it; a statistic only
\* the output has is never logged; only statistics on both sides are compared;
\* and the call raises only at a statistic on both sides.
Visited(i, k) == i < bi \/ (i = bi /\ k < si)
C4_MissingStatSkipped ==
    /\ \A i \in 1..Len(output_band_stats) :
          LET b == output_band_stats[i][1]
              out == output_band_stats[i][2]
          IN  b \in DOMAIN groundtruth_band_dict =>
                /\ \A k \in 1..Len(groundtruth_band_dict[b]) :
                      LET s == groundtruth_band_dict[b][k][1]
                      IN  s \notin DOMAIN out =>
                            IF Visited(i, k)
                            THEN \E n \in 1..Len(log) :
                                    /\ AboutStat(b, s) = {n}
                                    /\ log[n] = LogRec("warning", "assert_band_statistics",
                                                       "stat_missing", b, s)
                            ELSE AboutStat(b, s) = {}
                /\ \A s \in DOMAIN out \ Keys(groundtruth_band_dict[b]) : AboutStat(b, s) = {}
    /\ LET compared == Compared
       IN  \A n \in 1..Len(compared) :
              /\ compared[n][1] \in DOMAIN groundtruth_band_dict
              /\ compared[n][2] \in DOMAIN Lookup(output_band_stats, compared[n][1])
              /\ compared[n][2] \in Keys(groundtruth_band_dict[compared[n][1]])
    /\ (pc = "done" /\ result.kind = "raise") => CurStat \in DOMAIN CurOut

\* A call returned that met a statistic only the reference has and one only the output has.
C4_Witness ==
    /\ pc = "done"
    /\ result.kind = "return"
    /\ \E i \in 1..Len(output_band_stats) :
          LET b == output_band_stats[i][1]
          IN  /\ b \in DOMAIN groundtruth_band_dict
              /\ Keys(groundtruth_band_dict[b]) \ DOMAIN output_band_stats[i][2] # {}
              /\ DOMAIN output_band_stats[i][2] \ Keys(groundtruth_band_dict[b]) # {}

\* C5: on a well-formed reference file, the call returns the reference_data of
\* the first record of the requested scenario when there is one, and otherwise
\* raises the not-found ValueError, logged as an error just before.
Hits == {i \in 1..Len(world.records) : world.records[i].scenario_name = args.scenario_name}
C5_FirstMatchReturned ==
    (pc = "done" /\ world.reffile = "ok") =>
        IF Hits # {}
        THEN /\ \E i \in Hits :
                  /\ \A j \in Hits : i <= j
                  /\ result = Returned(world.records[i].reference_data)
             /\ ErrorLogs = {}
        ELSE /\ result = Raised("ValueError", "extract_reference_band_statistics")
             /\ LastLog = LogRec("error", "extract_reference_band_statistics", "ValueError", "", "")
             /\ Cardinality(ErrorLogs) = 1

\* The scenario had two records with different data and the call returned.
C5_Witness ==
    /\ pc = "done"
    /\ result.kind = "return"
    /\ \E i, j \in Hits : world.records[i].reference_data # world.records[j].reference_data

\* The step of execute_and_assert that fails on these inputs, and with what:
\* <<0, "">> when none does.
ExecFailure ==
    IF world.batch = "error" THEN <<1, "JobFailedException">>
    ELSE IF world.outfile = "absent" THEN <<2, "FileNotFoundError">>
    ELSE IF world.outfile = "truncated"
            /\ \E i \in 1..Len(world.raster) : world.raster[i][1] # "crs"
         THEN <<3, "OSError">>
    ELSE IF \E i \in 1..Len(world.raster) :
               world.raster[i][1] # "crs" /\ world.raster[i][2] = <<>>
         THEN <<3, "ValueError">>
    ELSE IF world.reffile = "absent" THEN <<4, "FileNotFoundError">>
    ELSE IF world.reffile = "malformed" THEN <<4, "ParseError">>
    ELSE IF Hits = {} THEN <<4, "ValueError">>
    ELSE IF OutOfTol # {} THEN <<5, "AssertionError">>
    ELSE <<0, "">>

\* C6: execute_and_assert starts its five steps in order, each at most once;
\* it returns only after all five, and when a step raises no later step is
\* started, the handler's error record is the last thing logged and the
\* exception of that step, of unchanged type, is what the caller gets.
C6_PipelineOrder ==
    fn = "execute_and_assert" =>
        /\ IsPrefix(started, ExecSteps)
        /\ pc = "done" =>
              IF ExecFailure[1] = 0
              THEN result = Returned(<<>>) /\ started = ExecSteps /\ ErrorLogs = {}
              ELSE /\ Len(started) = ExecFailure[1]
                   /\ result = Raised(ExecFailure[2], ExecSteps[ExecFailure[1]])
                   /\ LastLog = LogRec("error", "execute_and_assert", ExecFailure[2], "", "")

\* The reference step raised: four steps were started, the fifth never.
C6_Witness ==
    /\ fn = "execute_and_assert"
    /\ pc = "done"
    /\ result.kind = "raise"
    /\ Len(started) = 4

\* C7 as stated: every call that raised has logged an error record of the
\* exception it raised.
C7_EveryErrorLogged ==
    (pc = "done" /\ result.kind = "raise") =>
        \E k \in ErrorLogs : log[k][3] = result.type

\* The error a loader raises on a file in this state.
LoaderError(state) == IF state = "absent" THEN "FileNotFoundError" ELSE "ParseError"

\* C7 as amended: an error of a loader is logged by the loader and raised
\* unchanged; execute_and_assert logs whatever it re-raises; an AssertionError
\* of assert_band_statistics called directly is raised with no error record
\* in the log at all, and so is the ValueError of calculate_band_statistics
\* on a variable with no cell.
C7_LoggedWhereHandled ==
    (pc = "done" /\ result.kind = "raise") =>
        /\ result.raised_in \in {"extract_test_geometries", "extract_reference_band_statistics"}
              => \E k \in ErrorLogs : log[k] = LogRec("error", result.raised_in, result.type, "", "")
        /\ fn = "extract_test_geometries"
              => result = Raised(LoaderError(world.geofile), fn) /\ world.geofile # "ok"
        /\ fn = "extract_reference_band_statistics"
              => result = Raised(IF world.reffile = "ok" THEN "ValueError"
                                 ELSE LoaderError(world.reffile), fn)
        /\ fn = "execute_and_assert"
              => LastLog = LogRec("error", "execute_and_assert", result.type, "", "")
        /\ fn = "assert_band_statistics"
              => /\ result.raised_in = "assert_band_statistics"
                 /\ result.type \in {"AssertionError", "ValueError"}
                 /\ ErrorLogs = {}
        /\ fn = "calculate_band_statistics"
              => /\ result = Raised("ValueError", fn)
                 /\ ErrorLogs = {}

\* assert_band_statistics, called directly, raised.
C7_Witness ==
    /\ fn = "assert_band_statistics"
    /\ pc = "done"
    /\ result.kind = "raise"
    /\ result.type = "AssertionError"

\* C8: when a call has returned or raised, no file handle it opened is open.
C8_HandlesClosed == pc = "done" => handles = {}

\* The data variables other than "crs", in order, with their cells.
DataVars == SelectSeq(args.hypercube, LAMBDA v : v[1] # "crs")
HasValidCell(cells) == \E i \in 1..Len(cells) : ~IsNaN(cells[i])
HasInfCell(cells) == \E i \in 1..Len(cells) : IsInf(cells[i])

\* C9 as stated: the call returns one key per data variable other than "crs",
\* in order, each with exactly the seven fields, all finite.
C9_AllFinite ==
    (fn = "calculate_band_statistics" /\ pc = "done") =>
        /\ result.kind = "return"
        /\ Len(result.value) = Len(DataVars)
        /\ \A i \in 1..Len(DataVars) :
              /\ result.value[i][1] = DataVars[i][1]
              /\ DOMAIN result.value[i][2] = StatFields
              /\ \A f \in StatFields : IsFinite(result.value[i][2][f])

\* C9 as amended.  When every data variable other than "crs" has a cell, the
\* call returns one key per such variable, in order and never "crs", each with
\* exactly the seven fields: all finite when the band has a cell that is not
\* NaN and none that is infinite, all NaN when every cell is NaN, and with a
\* mean that is not finite and a NaN variance when a cell is infinite.  When
\* such a variable has no cell, the call raises ValueError.
C9_KeysAndFields ==
    (fn = "calculate_band_statistics" /\ pc = "done") =>
        IF \E i \in 1..Len(DataVars) : Len(DataVars[i][2]) = 0
        THEN result = Raised("ValueError", "calculate_band_statistics")
        ELSE /\ result.kind = "return"
             /\ Len(result.value) = Len(DataVars)
             /\ "crs" \notin Keys(result.value)
             /\ \A i \in 1..Len(DataVars) :
                   LET cells == DataVars[i][2]
                       stats == result.value[i][2]
                   IN  /\ result.value[i][1] = DataVars[i][1]
                       /\ DOMAIN stats = StatFields
                       /\ (HasValidCell(cells) /\ ~HasInfCell(cells)) =>
                             \A f \in StatFields : IsFinite(stats[f])
                       /\ ~HasValidCell(cells) =>
                             \A f \in StatFields : IsNaN(stats[f])
                       /\ HasInfCell(cells) =>
                             ~IsFinite(stats["mean"]) /\ IsNaN(stats["variance"])

\* A dataset with "crs", a band with finite cells and a band of NaN cells
\* only, for which the call returned.
C9_Witness ==
    /\ fn = "calculate_band_statistics"
    /\ pc = "done"
    /\ result.kind = "return"
    /\ Len(args.hypercube) = 3
    /\ Len(DataVars) = 2
    /\ HasValidCell(DataVars[1][2])
    /\ ~HasInfCell(DataVars[1][2])
    /\ Len(DataVars[2][2]) > 0
    /\ ~HasValidCell(DataVars[2][2])

\* C10: every log record about a band is about a band of the computed output;
\* when no computed band is in the reference, assert_band_statistics compares
\* nothing and returns, and so does an execute_and_assert that got as far as
\* calling it.
C10_OnlyOutputBandsChecked ==
    /\ \A k \in 1..Len(log) : log[k][4] # "" => log[k][4] \in Keys(output_band_stats)
    /\ (/\ pc = "done"
        /\ \/ fn = "assert_band_statistics"
           \/ fn = "execute_and_assert" /\ started = ExecSteps
        /\ Keys(output_band_stats) \cap DOMAIN groundtruth_band_dict = {})
          => result = Returned(<<>>) /\ Compared = <<>>

\* execute_and_assert returned on an output with no band against a reference with bands.
C10_Witness ==
    /\ fn = "execute_and_assert"
    /\ pc = "done"
    /\ started = ExecSteps
    /\ output_band_stats = <<>>
    /\ DOMAIN groundtruth_band_dict # {}
    /\ result.kind = "return"

=============================================================================
